---- MODULE Spec2Model ----
(***************************************************************************)
(* Model of the fixed-size thread pool of src/src/lib.rs: ThreadPool       *)
(* (build, execute, Drop) and the Worker thread loop, over an unbounded    *)
(* mpsc channel whose receiving end sits behind Arc<Mutex<..>>.            *)
(*                                                                         *)
(* Jobs are identified by the order in which execute was called (1, 2,     *)
(* ...).  A job either returns or panics when it is run; the model leaves  *)
(* that choice open for every job.                                         *)
(***************************************************************************)
EXTENDS Naturals, Integers, Sequences, FiniteSets, TLC

\* Largest size handed to build, and the number of execute calls explored.
MaxSize == 3
MaxJobs == 3

\* The number of incoming connections main takes before it shuts down; it
\* stands for the 100 of listener.incoming().take(100).
MaxConns == 5

\* ThreadPool::build(4) in main.
PoolSize == 4

VARIABLES
    buildArg,     \* the size given to build ("none" before the call)
    buildResult,  \* "none" | "Ok" | "CreationError"
    channel,      \* TRUE once mpsc::channel() has been called
    spawned,      \* ids of the threads started by thread::spawn
    workers,      \* ThreadPool.workers : Vec<Worker>
    sender,       \* ThreadPool.sender is Some
    rxRefs,       \* strong count of the Arc holding the Receiver
    queue,        \* messages buffered in the channel, oldest first
    locked,       \* the Mutex around the Receiver is held
    poisoned,     \* the Mutex is poisoned
    pc,           \* per thread: "WaitLock" | "Recv" | "Running" | "Terminated"
    current,      \* per thread: the job it holds (0: none)
    panicked,     \* per thread: the thread ended by a panic
    runs,         \* per job: how many times a worker invoked it
    completed,    \* jobs that ran to completion
    counter,      \* the shared counter each job increments once, as its last step
    nextJob,      \* id of the job the next execute call will carry
    accepted,     \* jobs whose execute returned Ok
    rejected,     \* jobs whose execute returned SendError
    discarded,    \* jobs destroyed without having been invoked
    lastResult,   \* result of the latest execute: "none" | "Ok" | "SendError"
    dropPc,       \* Drop: "live" | "joining" | "done" | "panicked"
    drain,        \* the workers still held by self.workers.drain(..)
    joined,       \* ids of the threads whose join() has returned
    detached,     \* ids of the threads whose JoinHandle was dropped unjoined
    mainPc,       \* main: "none" (not run) | "bind" | "build" | "accept" |
                  \*       "submit" | "drop" | "returned" | "panicked"
    taken,        \* main: items taken from listener.incoming()
    conns,        \* main: items that were Ok(stream)
    reports       \* main: "Failed to send job to pool" lines printed

vars == << buildArg, buildResult, channel, spawned, workers, sender, rxRefs,
           queue, locked, poisoned, pc, current, panicked, runs, completed,
           counter, nextJob, accepted, rejected, discarded, lastResult,
           dropPc, drain, joined, detached, mainPc, taken, conns, reports >>

\* The state of the library, and the state of main.
libVars == << buildArg, buildResult, channel, spawned, workers, sender, rxRefs,
              queue, locked, poisoned, pc, current, panicked, runs, completed,
              counter, nextJob, accepted, rejected, discarded, lastResult,
              dropPc, drain, joined, detached >>
mainVars == << mainPc, taken, conns, reports >>

poolVars   == << buildArg, buildResult, channel, spawned, workers >>
jobVars    == << runs, completed, counter >>
submitVars == << nextJob, accepted, rejected, lastResult >>
dropVars   == << dropPc, drain, joined, detached >>

Jobs == 1..(IF MaxJobs > MaxConns THEN MaxJobs ELSE MaxConns)

\* The elements of a sequence.
Range(s) == { s[i] : i \in 1..Len(s) }

\* Mutant of Worker: the ids are counted from one.
WorkerOneBased(id) == [ id |-> id + 1, thread |-> TRUE ]

\* Worker { id, thread: Some(thread) }
Worker(id) == [ id |-> id, thread |-> TRUE ]

\* The state of a worker in the terms of the specification's state machine.
WorkerState(w) ==
    CASE pc[w] \in {"WaitLock", "Recv"} -> "Idle"
      [] pc[w] = "Running"              -> "Running"
      [] OTHER                          -> "Terminated"

\* The Receiver is alive as long as some clone of its Arc is.
ReceiverAlive == rxRefs > 0

PoolInit ==
    /\ buildArg = "none"
    /\ buildResult = "none"
    /\ channel = FALSE
    /\ spawned = {}
    /\ workers = << >>
    /\ sender = FALSE
    /\ rxRefs = 0
    /\ queue = << >>
    /\ locked = FALSE
    /\ poisoned = FALSE
    /\ pc = [ w \in {} |-> "WaitLock" ]
    /\ current = [ w \in {} |-> 0 ]
    /\ panicked = [ w \in {} |-> FALSE ]
    /\ runs = [ j \in Jobs |-> 0 ]
    /\ completed = {}
    /\ counter = 0
    /\ nextJob = 1
    /\ accepted = {}
    /\ rejected = {}
    /\ discarded = {}
    /\ lastResult = "none"
    /\ dropPc = "live"
    /\ drain = << >>
    /\ joined = {}
    /\ detached = {}

\* The library on its own: main is not run.
Init ==
    /\ PoolInit
    /\ mainPc = "none"
    /\ taken = 0
    /\ conns = 0
    /\ reports = 0

(***************************************************************************)
(* ThreadPool::build                                                       *)
(***************************************************************************)

\* Mutant of BuildRejects: the zero check is left out.
BuildAcceptsZero(size) == FALSE

\* if size == 0 { return Err(CreationError) }
BuildRejects(size) == size = 0

\* build(size): the zero check, then the channel, the shared receiver and
\* one spawned Worker per id in 0..size.  The Arc created by build itself is
\* released when build returns, which leaves one clone per worker thread.
Build(size) ==
    /\ buildResult = "none"
    /\ buildArg' = size
    /\ IF BuildRejects(size)
       THEN /\ buildResult' = "CreationError"
            /\ UNCHANGED << channel, spawned, workers, sender, rxRefs, pc,
                            current, panicked >>
       ELSE /\ buildResult' = "Ok"
            /\ channel' = TRUE
            /\ spawned' = 0..(size - 1)
            /\ workers' = [ i \in 1..size |-> Worker(i - 1) ]
            /\ sender' = TRUE
            /\ rxRefs' = size
            /\ pc' = [ w \in 0..(size - 1) |-> "WaitLock" ]
            /\ current' = [ w \in 0..(size - 1) |-> 0 ]
            /\ panicked' = [ w \in 0..(size - 1) |-> FALSE ]
    /\ UNCHANGED << queue, locked, poisoned, discarded >>
    /\ UNCHANGED << jobVars, submitVars, dropVars >>

BuildAny == \E size \in 0..MaxSize : Build(size)

(***************************************************************************)
(* ThreadPool::execute                                                     *)
(***************************************************************************)

\* Mutant of SenderMissing: execute unwraps a sender it takes to be there.
SenderAssumedPresent == FALSE

\* self.sender.as_ref().ok_or_else(..)? : the sender has been taken.
SenderMissing == ~sender

\* Mutant of SendFails: the result of send is ignored.
SendNeverFails == FALSE

\* Sender::send(job) returns Err exactly when the Receiver has been dropped.
SendFails == ~ReceiverAlive

\* Mutant of SendBlocks: the channel is a bounded sync_channel(1),
\* whose send waits for room once one message is buffered.
SendBlocksWhenFull == Len(queue) >= 1

\* mpsc::channel() is unbounded: send never waits for room, whatever the
\* number of buffered messages, and it does not touch the receiver's Mutex.
SendBlocks == FALSE

\* Mutant of Enqueue: the newest message is put in front of the older ones.
EnqueueFront(q, job) == << job >> \o q

\* Sender::send(job) puts the message behind the ones already buffered.
Enqueue(q, job) == Append(q, job)

\* execute(f): box the closure, fail with SendError when the sender is
\* missing or when send fails, else leave the job at the back of the channel.
\* The method is callable for as long as the ThreadPool value exists, that
\* is until Drop has ended.
Execute ==
    /\ buildResult = "Ok"
    /\ dropPc \in {"live", "joining"}
    /\ ~SendBlocks
    /\ nextJob' = nextJob + 1
    /\ IF SenderMissing \/ SendFails
       THEN /\ lastResult' = "SendError"
            /\ rejected' = rejected \cup {nextJob}
            /\ discarded' = discarded \cup {nextJob}
            /\ UNCHANGED << queue, accepted >>
       ELSE /\ lastResult' = "Ok"
            /\ queue' = Enqueue(queue, nextJob)
            /\ accepted' = accepted \cup {nextJob}
            /\ UNCHANGED << rejected, discarded >>
    /\ UNCHANGED << poolVars, sender, rxRefs, locked, poisoned, pc, current,
                    panicked >>
    /\ UNCHANGED << jobVars, dropVars >>

(***************************************************************************)
(* The thread spawned by Worker::new                                       *)
(***************************************************************************)

\* The thread of worker w ends.  Its closure, and with it its clone of the
\* Arc, is destroyed; the last clone destroys the Receiver, which discards
\* the messages still buffered.  The thread's job, if it holds one, has been
\* consumed by the call.
ThreadExit(w, byPanic, q) ==
    /\ pc' = [ pc EXCEPT ![w] = "Terminated" ]
    /\ panicked' = [ panicked EXCEPT ![w] = byPanic ]
    /\ current' = [ current EXCEPT ![w] = 0 ]
    /\ rxRefs' = rxRefs - 1
    /\ IF rxRefs - 1 = 0
       THEN /\ queue' = << >>
            /\ discarded' = discarded \cup Range(q)
       ELSE /\ queue' = q
            /\ UNCHANGED discarded

\* Mutant of MutexFree: the receiver is shared without mutual exclusion.
MutexNeverHeld == TRUE

\* Mutex::lock() returns only when no other guard of the mutex is alive.
MutexFree == ~locked

\* receiver.lock().expect("Mutex poisoned"): take the mutex when it is free;
\* a poisoned mutex makes expect panic.
Lock(w) ==
    /\ pc[w] = "WaitLock"
    /\ MutexFree
    /\ IF poisoned
       THEN /\ ThreadExit(w, TRUE, queue)
            /\ UNCHANGED locked
       ELSE /\ locked' = TRUE
            /\ pc' = [ pc EXCEPT ![w] = "Recv" ]
            /\ UNCHANGED << rxRefs, queue, discarded, current, panicked >>
    /\ UNCHANGED << poolVars, sender, poisoned >>
    /\ UNCHANGED << jobVars, submitVars, dropVars >>

\* Mutant of Dequeue: the oldest message is read but stays in the channel.
DequeueKeepsHead(q) == q

\* What recv() leaves in the channel after handing out its oldest message.
Dequeue(q) == Tail(q)

\* Mutant of GuardHeldAfterLet: the guard lives as long as the job runs
\* (as it would in `while let Ok(job) = receiver.lock().unwrap().recv()`).
GuardHeldWhileRunning == TRUE

\* The MutexGuard is a temporary of the let statement: it is released when
\* the statement ends, before the match that runs the job.
GuardHeldAfterLet == FALSE

\* recv() returns Ok(job): the oldest message leaves the channel, the guard
\* is released and the match invokes the job.
RecvJob(w) ==
    /\ pc[w] = "Recv"
    /\ queue # << >>
    /\ LET job == Head(queue) IN
         /\ current' = [ current EXCEPT ![w] = job ]
         /\ runs' = [ runs EXCEPT ![job] = @ + 1 ]
    /\ queue' = Dequeue(queue)
    /\ locked' = GuardHeldAfterLet
    /\ pc' = [ pc EXCEPT ![w] = "Running" ]
    /\ UNCHANGED << poolVars, sender, rxRefs, poisoned, panicked, discarded >>
    /\ UNCHANGED << completed, counter, submitVars, dropVars >>

\* Mutant of Disconnected: closure is reported while messages are buffered.
DisconnectedEager == ~sender

\* recv() returns Err only when the channel is empty and every Sender is
\* gone; the pool's sender is the only one.
Disconnected == queue = << >> /\ ~sender

\* recv() returns Err: the guard is released and the loop breaks, which ends
\* the thread without a panic.
RecvClosed(w) ==
    /\ pc[w] = "Recv"
    /\ Disconnected
    /\ locked' = FALSE
    /\ ThreadExit(w, FALSE, queue)
    /\ UNCHANGED << poolVars, sender, poisoned >>
    /\ UNCHANGED << jobVars, submitVars, dropVars >>

\* Mutant of AfterJob: the closure has no loop and ends after one job.
AfterJobExit == "Terminated"

\* thread::spawn(move || loop { .. }): after a job the thread claims again.
AfterJob == "WaitLock"

\* job() returns: the job has incremented the counter, the loop goes round.
\* A guard that outlived the let statement would be released here.
Finish(w) ==
    /\ pc[w] = "Running"
    /\ completed' = completed \cup {current[w]}
    /\ counter' = counter + 1
    /\ current' = [ current EXCEPT ![w] = 0 ]
    /\ pc' = [ pc EXCEPT ![w] = AfterJob ]
    /\ locked' = IF GuardHeldAfterLet THEN FALSE ELSE locked
    /\ UNCHANGED << poolVars, sender, rxRefs, queue, poisoned, panicked,
                    discarded, runs >>
    /\ UNCHANGED << submitVars, dropVars >>

\* job() panics: the panic unwinds the thread of w.  A guard that outlived
\* the let statement would be released by the unwinding and poison the mutex.
Fault(w) ==
    /\ pc[w] = "Running"
    /\ poisoned' = (poisoned \/ GuardHeldAfterLet)
    /\ locked' = IF GuardHeldAfterLet THEN FALSE ELSE locked
    /\ ThreadExit(w, TRUE, queue)
    /\ UNCHANGED << poolVars, sender >>
    /\ UNCHANGED << jobVars, submitVars, dropVars >>

(***************************************************************************)
(* impl Drop for ThreadPool                                                *)
(***************************************************************************)

\* drop(self.sender.take()) and self.workers.drain(..): the sender is gone,
\* the Vec is left empty and its workers wait in the Drain iterator.
DropBegin ==
    /\ buildResult = "Ok"
    /\ dropPc = "live"
    /\ sender' = FALSE
    /\ drain' = workers
    /\ workers' = << >>
    /\ dropPc' = "joining"
    /\ UNCHANGED << buildArg, buildResult, channel, spawned, rxRefs, queue,
                    locked, poisoned, pc, current, panicked, discarded,
                    joined, detached >>
    /\ UNCHANGED << jobVars, submitVars >>

\* Mutant of JoinReturns: the handle is let go without waiting.
JoinReturnsAtOnce(w) == TRUE

\* thread.join() blocks until the thread has ended.
JoinReturns(w) == pc[w] = "Terminated"

\* Mutant of JoinFails: the result of join is ignored.
JoinResultIgnored(w) == FALSE

\* thread.join() returns Err when the thread ended by a panic.
JoinFails(w) == panicked[w]

\* One round of the for loop: join the thread of the next drained worker,
\* which waits until that thread has ended.  When join returns Err, expect
\* panics: Drop ends there and the unwinding destroys the Drain iterator,
\* dropping the JoinHandles of the workers it still holds.
DropJoin ==
    /\ dropPc = "joining"
    /\ drain # << >>
    /\ LET worker == Head(drain) IN
         IF worker.thread
         THEN /\ JoinReturns(worker.id)
              /\ joined' = joined \cup {worker.id}
              /\ IF JoinFails(worker.id)
                 THEN /\ dropPc' = "panicked"
                      /\ detached' = { Tail(drain)[i].id : i \in 1..(Len(drain) - 1) }
                      /\ drain' = << >>
                 ELSE /\ drain' = Tail(drain)
                      /\ UNCHANGED << dropPc, detached >>
         ELSE /\ drain' = Tail(drain)
              /\ UNCHANGED << dropPc, joined, detached >>
    /\ UNCHANGED << poolVars, sender, rxRefs, queue, locked, poisoned, pc,
                    current, panicked, discarded >>
    /\ UNCHANGED << jobVars, submitVars >>

\* The for loop is over: drop returns.
DropReturn ==
    /\ dropPc = "joining"
    /\ drain = << >>
    /\ dropPc' = "done"
    /\ UNCHANGED << poolVars, sender, rxRefs, queue, locked, poisoned, pc,
                    current, panicked, discarded, drain, joined, detached >>
    /\ UNCHANGED << jobVars, submitVars >>

(***************************************************************************)
(* main (src/src/main.rs)                                                  *)
(***************************************************************************)

\* TcpListener::bind: on Err main prints the error and returns.
MainBind ==
    /\ mainPc = "bind"
    /\ \E ok \in BOOLEAN : mainPc' = IF ok THEN "build" ELSE "returned"
    /\ UNCHANGED << taken, conns, reports >>
    /\ UNCHANGED libVars

\* ThreadPool::build(4): on Err main prints the error and returns.
MainBuild ==
    /\ mainPc = "build"
    /\ Build(PoolSize)
    /\ mainPc' = IF buildResult' = "Ok" THEN "accept" ELSE "returned"
    /\ UNCHANGED << taken, conns, reports >>

\* The next item of listener.incoming().take(..): Ok(stream) is handed to
\* execute, Err(e) is printed and the loop goes on.
MainAccept ==
    /\ mainPc = "accept"
    /\ taken < MaxConns
    /\ taken' = taken + 1
    /\ \E ok \in BOOLEAN :
          IF ok THEN conns' = conns + 1 /\ mainPc' = "submit"
          ELSE UNCHANGED << conns, mainPc >>
    /\ UNCHANGED reports
    /\ UNCHANGED libVars

\* Mutant of AfterSubmit: a failed submission is tried again.
RetryOnSendError(res) == IF res = "SendError" THEN "submit" ELSE "accept"

\* Where the loop goes with the result of execute: to the next connection.
AfterSubmit(res) == "accept"

\* pool.execute(|| handle_connection(stream)); an Err is printed.
MainSubmit ==
    /\ mainPc = "submit"
    /\ Execute
    /\ reports' = IF lastResult' = "SendError" THEN reports + 1 ELSE reports
    /\ mainPc' = AfterSubmit(lastResult')
    /\ UNCHANGED << taken, conns >>

\* The iterator is exhausted: main prints "Shutting down." and reaches the
\* end of its body, where the pool goes out of scope.
MainLoopEnd ==
    /\ mainPc = "accept"
    /\ taken = MaxConns
    /\ mainPc' = "drop"
    /\ UNCHANGED << taken, conns, reports >>
    /\ UNCHANGED libVars

\* Drop of the pool, run by the main thread at the end of main.
MainDrop ==
    /\ mainPc = "drop"
    /\ (DropBegin \/ DropJoin \/ DropReturn)
    /\ UNCHANGED mainVars

\* Drop has ended: main returns, or the panic of Drop unwinds main.
MainReturn ==
    /\ mainPc = "drop"
    /\ dropPc \in {"done", "panicked"}
    /\ mainPc' = IF dropPc = "done" THEN "returned" ELSE "panicked"
    /\ UNCHANGED << taken, conns, reports >>
    /\ UNCHANGED libVars

(***************************************************************************)
(* Specifications                                                          *)
(***************************************************************************)

WorkerStep(w) ==
    \/ Lock(w)
    \/ RecvJob(w)
    \/ RecvClosed(w)
    \/ Finish(w)
    \/ Fault(w)

\* The library used by any owner: a pool is built with any size, at most
\* MaxJobs jobs are submitted, and the pool is dropped at any time.
Next ==
    \/ BuildAny /\ UNCHANGED mainVars
    \/ Execute /\ nextJob <= MaxJobs /\ UNCHANGED mainVars
    \/ \E w \in spawned : Lock(w) /\ UNCHANGED mainVars
    \/ \E w \in spawned : RecvJob(w) /\ UNCHANGED mainVars
    \/ \E w \in spawned : RecvClosed(w) /\ UNCHANGED mainVars
    \/ \E w \in spawned : Finish(w) /\ UNCHANGED mainVars
    \/ \E w \in spawned : Fault(w) /\ UNCHANGED mainVars
    \/ DropBegin /\ UNCHANGED mainVars
    \/ DropJoin /\ UNCHANGED mainVars
    \/ DropReturn /\ UNCHANGED mainVars

Spec == Init /\ [][Next]_vars

\* Every spawned thread is an OS thread that keeps being scheduled, a job
\* that was invoked ends (by returning or by panicking), and the thread that
\* runs Drop keeps being scheduled too.  Nothing obliges the owner of the
\* pool to build it, to submit jobs or to drop it.
FairSpec ==
    /\ Spec
    /\ \A w \in 0..MaxSize :
          WF_vars(w \in spawned /\ WorkerStep(w) /\ UNCHANGED mainVars)
    /\ WF_vars(DropJoin /\ UNCHANGED mainVars)
    /\ WF_vars(DropReturn /\ UNCHANGED mainVars)

\* The server: main drives the pool, the worker threads run beside it.
MainInit ==
    /\ PoolInit
    /\ mainPc = "bind"
    /\ taken = 0
    /\ conns = 0
    /\ reports = 0

MainNext ==
    \/ MainBind
    \/ MainBuild
    \/ MainAccept
    \/ MainSubmit
    \/ MainLoopEnd
    \/ MainDrop
    \/ MainReturn
    \/ \E w \in spawned : WorkerStep(w) /\ UNCHANGED mainVars

MainSpec == MainInit /\ [][MainNext]_vars

(***************************************************************************)
(* Shorthands of the properties                                            *)
(***************************************************************************)

AllTerminated == buildResult = "Ok" /\ \A w \in spawned : pc[w] = "Terminated"

AllPanicked == buildResult = "Ok" /\ \A w \in spawned : panicked[w]

NoPanic == \A w \in spawned : ~panicked[w]

\* Jobs that were invoked and ended by a panic.
FaultedJobs ==
    { j \in Jobs : /\ runs[j] >= 1
                   /\ j \notin completed
                   /\ \A w \in spawned : current[w] # j }

(***************************************************************************)
(* C1                                                                      *)
(***************************************************************************)

\* C1 as stated: once every worker thread has ended, so that nothing can be
\* executed any more, every job whose execute returned Ok has been executed
\* exactly once.
C1_EveryAcceptedJobRuns ==
    AllTerminated => \A j \in accepted : runs[j] = 1

\* C1, amended: no job is ever executed twice and only accepted jobs are
\* executed; every job whose execute returned Ok is eventually executed
\* unless every worker thread has been ended by a panicking job; and when
\* all threads have ended and none panicked, the shared counter equals the
\* number of accepted jobs.
C1_ExactlyOnceUnlessAllPanicked ==
    /\ [](\A j \in Jobs : runs[j] <= 1 /\ (runs[j] = 1 => j \in accepted))
    /\ []((AllTerminated /\ NoPanic) => counter = Cardinality(accepted))
    /\ \A j \in Jobs : (j \in accepted) ~> (runs[j] = 1 \/ AllPanicked)

\* Several jobs were accepted by a pool of two workers and each has run once.
C1_Witness ==
    /\ Cardinality(spawned) = 2
    /\ Cardinality(accepted) >= 2
    /\ \A j \in accepted : runs[j] = 1
    /\ counter = Cardinality(accepted)

(***************************************************************************)
(* C2                                                                      *)
(***************************************************************************)

\* C2: when Drop has returned, every job whose execute returned Ok has run
\* to completion, and the counter shows one increment per such job.
C2_DropReturnsAfterAllJobs ==
    dropPc = "done" =>
        /\ \A j \in accepted : j \in completed
        /\ counter = Cardinality(accepted)

\* build(2), every submission accepted, pool dropped, Drop returned.
C2_Witness ==
    /\ Cardinality(spawned) = 2
    /\ accepted = 1..MaxJobs
    /\ dropPc = "done"

(***************************************************************************)
(* C3                                                                      *)
(***************************************************************************)

\* C3: a claimed job is held by exactly one worker, which is running it; it
\* is no longer in the channel, and no job is ever invoked twice, whether
\* its run returned or panicked.
C3_ClaimedJobHasOneOwner ==
    /\ \A w \in spawned : current[w] # 0 =>
          /\ pc[w] = "Running"
          /\ current[w] \notin Range(queue)
          /\ \A v \in spawned \ {w} : current[v] # current[w]
    /\ \A w \in spawned : pc[w] = "Running" => current[w] # 0
    /\ \A j \in Jobs : runs[j] <= 1
    /\ \A j \in Jobs : runs[j] >= 1 => j \notin Range(queue)

\* Two workers run two jobs at once after a third job has panicked.
C3_Witness ==
    /\ \E w, v \in spawned : w # v /\ pc[w] = "Running" /\ pc[v] = "Running"
    /\ FaultedJobs # {}

(***************************************************************************)
(* C4                                                                      *)
(***************************************************************************)

\* C4 as stated: when Drop has ended, by returning or by panicking, every
\* started worker thread has been joined and has ended.
C4_AllJoinedWhenDropEnds ==
    dropPc \in {"done", "panicked"} =>
        \A w \in spawned : w \in joined /\ pc[w] = "Terminated"

\* C4, amended: Drop ends; a joined thread has ended; when Drop returns
\* normally every started thread has been joined; when Drop ends by a panic
\* it has joined the workers up to the first one whose thread panicked, and
\* the handles of the workers after it are dropped unjoined.
C4_JoinedUpToFirstPanic ==
    /\ [](\A w \in joined : pc[w] = "Terminated")
    /\ [](dropPc = "done" => (joined = spawned /\ detached = {}))
    /\ [](dropPc = "panicked" =>
            \E k \in spawned :
                /\ panicked[k]
                /\ \A w \in 0..(k - 1) : ~panicked[w]
                /\ joined = 0..k
                /\ detached = spawned \ (0..k))
    /\ (dropPc = "joining") ~> (dropPc \in {"done", "panicked"})

\* Drop has ended by a panic while a worker it never joined runs a job.
C4_Witness ==
    /\ dropPc = "panicked"
    /\ \E w \in detached : pc[w] = "Running"

(***************************************************************************)
(* C5                                                                      *)
(***************************************************************************)

\* C5: build(0) returns CreationError, and leaves no pool, no channel and no
\* thread behind.
C5_BuildZeroFails ==
    (buildResult # "none" /\ buildArg = 0) =>
        /\ buildResult = "CreationError"
        /\ workers = << >>
        /\ ~sender
        /\ ~channel
        /\ spawned = {}
        /\ rxRefs = 0

\* build(0) has returned.
C5_Witness == buildResult # "none" /\ buildArg = 0

(***************************************************************************)
(* C6                                                                      *)
(***************************************************************************)

\* The pool as build(size) returns it, for as long as it is not torn down.
C6_PoolOfSize ==
    (buildResult # "none" /\ buildArg > 0) =>
        /\ buildResult = "Ok"
        /\ spawned = 0..(buildArg - 1)
        /\ dropPc = "live" =>
              /\ Len(workers) = buildArg
              /\ Len(workers) # 0
              /\ \A i \in 1..Len(workers) :
                    workers[i].id = i - 1 /\ workers[i].thread
              /\ sender

\* C6: build(size) with size > 0 succeeds; the pool holds exactly size
\* workers with ids 0..size-1, their threads and the sender, until it is torn
\* down; every worker is idle when build returns; and no thread is added or
\* removed later.
C6_BuildYieldsSizeWorkers ==
    /\ []C6_PoolOfSize
    /\ [][buildResult = "none" /\ buildResult' = "Ok" =>
            \A w \in spawned' : WorkerState(w)' = "Idle"]_vars
    /\ [][buildResult = "Ok" => (spawned' = spawned /\ buildArg' = buildArg)]_vars

\* A pool of the largest size, in use: jobs were accepted and a worker runs.
C6_Witness ==
    /\ buildResult = "Ok"
    /\ Len(workers) = MaxSize
    /\ accepted # {}
    /\ \E w \in spawned : pc[w] = "Running"

(***************************************************************************)
(* C7                                                                      *)
(***************************************************************************)

\* C7: an execute call made when the sender has been taken returns
\* SendError and leaves the channel as it was; a job whose execute returned
\* SendError is never queued and never invoked.
C7_ExecuteAfterCloseFails ==
    /\ [][(buildResult = "Ok" /\ ~sender /\ nextJob' # nextJob) =>
            /\ lastResult' = "SendError"
            /\ queue' = queue
            /\ nextJob \in rejected'
            /\ nextJob \notin accepted']_vars
    /\ [](\A j \in rejected :
            runs[j] = 0 /\ j \notin Range(queue) /\ j \notin accepted)

\* execute failed after the sender was taken, while every worker thread, and
\* so the Receiver, was still alive.
C7_Witness ==
    /\ buildResult = "Ok"
    /\ ~sender
    /\ lastResult = "SendError"
    /\ rejected # {}
    /\ \A w \in spawned : pc[w] # "Terminated"

(***************************************************************************)
(* C8                                                                      *)
(***************************************************************************)

\* C8: with the sender in place, execute returns Ok and queues the job when
\* some worker thread is alive, and returns SendError when every worker
\* thread has ended; in that case the job is destroyed, nothing else
\* changes, and the job is never invoked.
C8_ExecuteFailsWhenReceiverGone ==
    /\ [][(sender /\ nextJob' # nextJob) =>
            IF \E w \in spawned : pc[w] # "Terminated"
            THEN /\ lastResult' = "Ok"
                 /\ queue' = Append(queue, nextJob)
                 /\ nextJob \in accepted'
            ELSE /\ lastResult' = "SendError"
                 /\ nextJob \in rejected' /\ nextJob \in discarded'
                 /\ UNCHANGED << poolVars, sender, rxRefs, queue, locked,
                                 poisoned, pc, current, panicked, jobVars,
                                 accepted, dropVars >>]_vars
    /\ [](\A j \in rejected : runs[j] = 0 /\ j \notin completed)

\* The pool is not torn down, all its workers have ended and execute failed.
C8_Witness ==
    /\ sender
    /\ AllTerminated
    /\ lastResult = "SendError"
    /\ rejected # {}

(***************************************************************************)
(* C9                                                                      *)
(***************************************************************************)

LiveWorkers == { w \in spawned : pc[w] # "Terminated" }

C10_TeardownFailsOnPanickedWorker ==
    /\ [](dropPc = "done" => NoPanic)
    /\ [](dropPc = "panicked" => \E w \in joined : panicked[w])
    /\ (dropPc = "joining" /\ ~NoPanic) ~> (dropPc = "panicked")
    /\ (dropPc = "joining") ~> (dropPc = "done" \/ ~NoPanic)

\* Drop ended by a panic after it had joined a worker cleanly.
C10_Witness ==
    /\ dropPc = "panicked"
    /\ \E w \in joined : ~panicked[w]

(***************************************************************************)
(* C11                                                                     *)
(***************************************************************************)

\* C11: on a pool that is not being torn down execute can always be taken,
\* whatever the length of the channel, the state of the mutex and the states
\* of the workers; the call is one step that starts no job, changes no
\* worker and does not touch the mutex.
C11_ExecuteNeverBlocks ==
    /\ []((buildResult = "Ok" /\ dropPc = "live") =>
            ENABLED (Execute /\ UNCHANGED mainVars))
    /\ [][nextJob' # nextJob =>
            /\ UNCHANGED << pc, current, locked, runs, completed >>
            /\ runs'[nextJob] = 0]_vars

\* execute was accepted and can be called again while every worker runs a
\* job and another job waits in the channel.
C11_Witness ==
    /\ buildResult = "Ok" /\ dropPc = "live"
    /\ nextJob <= MaxJobs
    /\ lastResult = "Ok"
    /\ queue # << >>
    /\ \A w \in spawned : pc[w] = "Running"

(***************************************************************************)
(* C12                                                                     *)
(***************************************************************************)

\* The workers inside the let statement, between lock() and the end of recv().
LockHolders == { w \in spawned : pc[w] = "Recv" }

\* C12: the mutex is held only by a worker that is between lock() and the
\* return of recv(); a worker that runs a job took its job with the mutex
\* and has released it, so the mutex is never held on behalf of a running
\* worker.
C12_RunningWorkerHoldsNoLock ==
    /\ locked => LockHolders # {}
    /\ \A w \in spawned :
          pc[w] = "Running" => (locked => \E v \in spawned \ {w} : pc[v] = "Recv")

\* A worker runs a job while another one holds the mutex in recv().
C12_Witness ==
    /\ locked
    /\ \E w, v \in spawned : pc[w] = "Running" /\ pc[v] = "Recv"

(***************************************************************************)
(* C13                                                                     *)
(***************************************************************************)

\* C13: at most one worker is inside the claim step, and it is there with
\* the mutex held; every other idle worker waits for the mutex.
C13_OneWorkerInClaimStep ==
    /\ Cardinality(LockHolders) <= 1
    /\ LockHolders # {} => locked
    /\ \A w \in spawned :
          (WorkerState(w) = "Idle" /\ w \notin LockHolders) => pc[w] = "WaitLock"

\* One worker holds the mutex in recv() and two idle workers wait for it.
C13_Witness ==
    /\ Cardinality(LockHolders) = 1
    /\ Cardinality({ w \in spawned : pc[w] = "WaitLock" }) >= 2

(***************************************************************************)
(* C14                                                                     *)
(***************************************************************************)

\* C14: the pool holds its sender exactly as long as Drop has not begun, and
\* once Drop has begun no job is added to the channel.
C14_SenderIffNotShutDown ==
    /\ [](buildResult = "Ok" => (sender <=> dropPc = "live"))
    /\ [][dropPc # "live" => Range(queue') \subseteq Range(queue)]_vars

\* Drop has begun with a job still queued, and an execute call was refused.
C14_Witness ==
    /\ dropPc = "joining"
    /\ queue # << >>
    /\ rejected # {}

(***************************************************************************)
(* C15                                                                     *)
(***************************************************************************)

\* C15: taking the sender changes no worker and no queued job; a running
\* job ends only by returning or by its own panic, and it does end; a
\* worker leaves cleanly only from its claim step; and a thread that Drop
\* has joined has ended and holds no job.
C15_CloseNeverInterruptsJob ==
    /\ [][(sender /\ ~sender') => UNCHANGED << pc, current, queue, jobVars >>]_vars
    /\ [][\A w \in spawned :
            (pc[w] = "Running" /\ pc'[w] # "Running") =>
                \/ pc'[w] = "WaitLock" /\ current[w] \in completed'
                \/ pc'[w] = "Terminated" /\ panicked'[w]]_vars
    /\ [][\A w \in spawned :
            (pc[w] # "Terminated" /\ pc'[w] = "Terminated" /\ ~panicked'[w]) =>
                pc[w] = "Recv"]_vars
    /\ [](\A w \in joined : pc[w] = "Terminated" /\ current[w] = 0)
    /\ \A w \in 0..MaxSize :
          (w \in spawned /\ ~sender /\ pc[w] = "Running")
              ~> (w \in spawned /\ pc[w] # "Running")

\* The sender is gone and Drop waits in join for a worker that runs a job.
C15_Witness ==
    /\ dropPc = "joining"
    /\ drain # << >>
    /\ pc[Head(drain).id] = "Running"

(***************************************************************************)
(* C16                                                                     *)
(***************************************************************************)

\* C16: jobs leave the channel in the order of their execute calls: the
\* channel holds them in that order, and a job has been claimed only if
\* every job accepted before it has been claimed.
C16_ClaimedInSubmissionOrder ==
    /\ \A i, k \in 1..Len(queue) : i < k => queue[i] < queue[k]
    /\ \A a, b \in accepted :
          (a < b /\ runs[b] >= 1) => (runs[a] >= 1 /\ a \notin Range(queue))

\* Completion follows no such order: a later job has completed while an
\* earlier one is still running.
C16_Witness ==
    \E a, b \in accepted :
        /\ a < b
        /\ b \in completed
        /\ \E w \in spawned : current[w] = a /\ pc[w] = "Running"

(***************************************************************************)
(* C17                                                                     *)
(***************************************************************************)

\* C17: a worker changes state only from Idle to Running with a job it
\* claimed, from Running to Idle with that job finished, from Idle to
\* Terminated on a closed and empty channel, and from Running to Terminated
\* by the panic of its job; a Terminated worker stays so, and the set of
\* threads never changes after build.
C17_WorkerStateMachine ==
    /\ [][\A w \in spawned :
            LET a == WorkerState(w)
                b == IF pc'[w] \in {"WaitLock", "Recv"} THEN "Idle"
                     ELSE IF pc'[w] = "Running" THEN "Running" ELSE "Terminated"
            IN  a # b =>
                  \/ /\ a = "Idle" /\ b = "Running"
                     /\ queue # << >> /\ current'[w] = Head(queue)
                  \/ /\ a = "Running" /\ b = "Idle"
                     /\ current[w] \in completed'
                  \/ /\ a = "Idle" /\ b = "Terminated"
                     /\ ~sender /\ queue = << >> /\ ~panicked'[w]
                  \/ /\ a = "Running" /\ b = "Terminated"
                     /\ panicked'[w]]_vars
    /\ [][\A w \in spawned :
            pc[w] = "Terminated" => (current'[w] = 0 /\ panicked'[w] = panicked[w])]_vars
    /\ [][buildResult = "Ok" => spawned' = spawned]_vars

\* One worker has ended on the closed channel after finishing a job, another
\* one by the panic of its job.
C17_Witness ==
    /\ completed # {}
    /\ \E w, v \in spawned :
          /\ pc[w] = "Terminated" /\ ~panicked[w]
          /\ pc[v] = "Terminated" /\ panicked[v]

(***************************************************************************)
(* C19                                                                     *)
(***************************************************************************)

\* C19: a worker thread ends without a panic only when the sender is gone
\* and the channel is empty; a worker whose recv() returns while a job is
\* queued gets the oldest job; so once all threads have ended cleanly every
\* accepted job has completed and none was discarded.
C19_CleanExitOnlyOnEmptyChannel ==
    /\ [][\A w \in spawned :
            (pc[w] # "Terminated" /\ pc'[w] = "Terminated" /\ ~panicked'[w]) =>
                (~sender /\ queue = << >>)]_vars
    /\ [][\A w \in spawned :
            (pc[w] = "Recv" /\ pc'[w] # "Recv" /\ queue # << >>) =>
                (pc'[w] = "Running" /\ current'[w] = Head(queue))]_vars
    /\ []((AllTerminated /\ NoPanic) =>
            (accepted \subseteq completed /\ discarded \cap accepted = {}))

\* Drop began with jobs queued; all workers have since ended cleanly and
\* every job was run.
C19_Witness ==
    /\ AllTerminated /\ NoPanic
    /\ Cardinality(spawned) >= 2
    /\ accepted = 1..MaxJobs
    /\ completed = 1..MaxJobs

(***************************************************************************)
(* C20                                                                     *)
(***************************************************************************)

\* C20: the mutex is never poisoned; a thread ends by a panic only while it
\* runs a job, never in lock() and never with the mutex held; and a thread
\* that ends leaves the mutex to the others.
C20_MutexNeverPoisoned ==
    /\ []~poisoned
    /\ [][\A w \in spawned :
            (~panicked[w] /\ panicked'[w]) =>
                (pc[w] = "Running" /\ w \notin LockHolders)]_vars
    /\ [][\A w \in spawned :
            (pc[w] = "Recv" /\ pc'[w] = "Terminated") => ~locked']_vars

\* Two jobs have panicked and a third worker has taken the mutex since.
C20_Witness ==
    /\ Cardinality({ w \in spawned : panicked[w] }) >= 2
    /\ \E w \in spawned : pc[w] = "Recv"
    /\ locked

(***************************************************************************)
(* C18                                                                     *)
(***************************************************************************)

\* C18: main builds one pool, of PoolSize workers, before it takes any
\* connection; when it moves on from a connection it has called execute
\* once for it, so the number of execute calls equals the number of accepted
\* connections; the call starts no job and main goes to the next connection
\* whatever the result, having printed one line per SendError; Drop begins
\* only after the loop has ended, and main returns only after Drop returned.
C18_MainSubmitsOncePerConnection ==
    /\ [](buildResult = "none" => (taken = 0 /\ nextJob = 1))
    /\ [](buildResult = "Ok" => buildArg = PoolSize)
    /\ [][buildResult # "none" =>
            (buildResult' = buildResult /\ spawned' = spawned)]_vars
    /\ [](nextJob - 1 = conns - (IF mainPc = "submit" THEN 1 ELSE 0))
    /\ [](reports = Cardinality(rejected))
    /\ [][nextJob' # nextJob =>
            /\ nextJob' = nextJob + 1
            /\ mainPc' = "accept"
            /\ UNCHANGED << pc, current, runs, completed >>]_vars
    /\ [](dropPc # "live" =>
            (taken = MaxConns /\ mainPc \in {"drop", "returned", "panicked"}))
    /\ []((mainPc = "returned" /\ buildResult = "Ok") =>
            (dropPc = "done" /\ AllTerminated))
    /\ [](mainPc = "panicked" => dropPc = "panicked")

\* Every worker of main's pool was lost to a panic; the submission for the
\* next connection failed, was reported once and was not repeated, and main
\* is back at the head of its loop.
C18_Witness ==
    /\ buildResult = "Ok"
    /\ AllPanicked
    /\ conns = PoolSize + 1
    /\ nextJob - 1 = conns
    /\ reports = 1
    /\ mainPc = "accept"

====
